---- MODULE Spec2Model ----
(***************************************************************************)
(* A model of src/zabbix_db.py (class ZabbixDB): the statistics reducer    *)
(* compute_statistic, the duration parser convert_day, the retention       *)
(* router get_function_name, the metric resolver get_metric_data and the   *)
(* cross-host aggregator get_host_by_metric.                               *)
(*                                                                         *)
(* Numbers.  Sample values are integers counting thousandths (1234 is      *)
(* 1.234), so that round(x, 2) is something the model computes.  Retention *)
(* lengths are integers counting hundredths of a day, the granularity      *)
(* convert_day returns.  Times are unix seconds.                           *)
(*                                                                         *)
(* One behaviour is one call: a call action picks the arguments and the    *)
(* answers of the database, runs the whole method and records what the     *)
(* caller gets back.                                                       *)
(***************************************************************************)
EXTENDS Integers, Sequences, FiniteSets, TLC

VARIABLES pc, op, args, result, calls

vars == <<pc, op, args, result, calls>>

(***************************************************************************)
(* Bounds of the model.                                                    *)
(***************************************************************************)
MaxLen == 3        \* longest sample sequence given to compute_statistic
MaxClock == 2      \* sample clocks are 1..MaxClock
MaxValIdx == 3     \* sample values are 0, 4, .. 4*MaxValIdx thousandths
MaxDays == 3       \* retention lengths are 0..MaxDays whole days
MaxSlots == 8      \* request times lie 0..MaxSlots half days before now
NowSec == 1000000  \* the wall clock of the call, unix seconds
MaxItemDays == 2   \* an item's retention settings are "1d" .. "<MaxItemDays>d"
MaxRows == 2       \* most rows a history or trends query returns
MaxHosts == 2      \* most hosts that expose the metric
MaxLimit == 2      \* limit is absent or 0..MaxLimit
MaxCalls == 2      \* longest sequence of direct fetch calls
MaxFetchRows == 1  \* most rows a directly called fetch returns
MaxTokens == 2     \* most <integer><character> tokens in a duration string

seconds_in_day == 86400

None == "None"

(***************************************************************************)
(* Generic helpers.                                                        *)
(***************************************************************************)
SeqsUpTo(S, n) == UNION {[1..k -> S] : k \in 0..n}

RECURSIVE SumSeq(_)
SumSeq(s) == IF s = <<>> THEN 0 ELSE Head(s) + SumSeq(Tail(s))

RECURSIVE MinSeq(_)
MinSeq(s) ==
  IF Len(s) = 1 THEN Head(s)
  ELSE LET m == MinSeq(Tail(s)) IN IF Head(s) <= m THEN Head(s) ELSE m

RECURSIVE MaxSeq(_)
MaxSeq(s) ==
  IF Len(s) = 1 THEN Head(s)
  ELSE LET m == MaxSeq(Tail(s)) IN IF Head(s) >= m THEN Head(s) ELSE m

RECURSIVE InsertSorted(_, _)
InsertSorted(x, s) ==
  IF s = <<>> THEN <<x>>
  ELSE IF x <= Head(s) THEN <<x>> \o s
  ELSE <<Head(s)>> \o InsertSorted(x, Tail(s))

RECURSIVE SortAsc(_)
SortAsc(s) == IF s = <<>> THEN <<>> ELSE InsertSorted(Head(s), SortAsc(Tail(s)))

Abs(x) == IF x < 0 THEN -x ELSE x

(***************************************************************************)
(* Samples: the dicts {'clock': .., 'value': ..} a cursor returns.         *)
(***************************************************************************)
Values == {4 * k : k \in 0..MaxValIdx}

Sample == [clock : 1..MaxClock, value : Values]

\* round(x, 2) on thousandths: to the nearest multiple of 10, an exact half
\* to the even hundredth.
Round2(v) ==
  LET q == v \div 10
      r == v % 10
  IN  IF r < 5 THEN 10 * q
      ELSE IF r > 5 THEN 10 * (q + 1)
      ELSE IF q % 2 = 0 THEN 10 * q ELSE 10 * (q + 1)

\* Twice statistics.median of a non-empty sequence of integers.
Median2(s) ==
  LET t == SortAsc(s)
      n == Len(t)
  IN  IF n % 2 = 1 THEN 2 * t[(n + 1) \div 2]
      ELSE t[n \div 2] + t[n \div 2 + 1]

\* max(data, key=clock): the first element at the greatest clock.
MaxByClock(data) ==
  LET top == MaxSeq([i \in 1..Len(data) |-> data[i].clock])
      i0 == CHOOSE i \in 1..Len(data) :
              /\ data[i].clock = top
              /\ \A j \in 1..(i - 1) : data[j].clock # top
  IN  data[i0]

RECURSIVE SelectValue(_, _)
SelectValue(data, v) ==
  IF data = <<>> THEN <<>>
  ELSE IF Head(data).value = v
       THEN <<Head(data)>> \o SelectValue(Tail(data), v)
       ELSE SelectValue(Tail(data), v)

\* What a method hands back: a list, a number num/den (its square root when
\* root is set), or an exception raised to the caller.
ListResult(items) == [kind |-> "list", items |-> items]
Scalar(num, den, root) == [kind |-> "scalar", num |-> num, den |-> den, root |-> root]
Raise(exc) == [kind |-> "raise", exc |-> exc]

ValidStats == {"min", "max", "mean", "median", "stdev", "sum", "count",
               "range", "mad", "last", "avg"}

Operations == ValidStats \cup {"mode"}

\* A deviation that is defined from one sample on (the population formula).
stdev_one_sample(values) ==
  LET n == Len(values)
  IN  IF n < 1 THEN Raise("StatisticsError")
      ELSE Scalar(n * SumSeq([i \in 1..n |-> values[i] * values[i]])
                    - SumSeq(values) * SumSeq(values),
                  n * n, TRUE)

\* statistics.stdev(values): the sample standard deviation, the square root
\* of (n * sum(x^2) - sum(x)^2) / (n * (n - 1)).
stdev(values) ==
  LET n == Len(values)
  IN  IF n < 2 THEN Raise("StatisticsError")
      ELSE Scalar(n * SumSeq([i \in 1..n |-> values[i] * values[i]])
                    - SumSeq(values) * SumSeq(values),
                  n * (n - 1), TRUE)

\* The if/elif chain of compute_statistic, reached with non-empty data.
reduce_nonempty(data, operation) ==
  LET values == [i \in 1..Len(data) |-> Round2(data[i].value)]
      n == Len(values)
  IN  CASE operation = "min" -> ListResult(SelectValue(data, MinSeq(values)))
        [] operation = "max" -> ListResult(SelectValue(data, MaxSeq(values)))
        [] operation = "last" -> ListResult(<<MaxByClock(data)>>)
        [] operation \in {"mean", "avg"} -> Scalar(SumSeq(values), n, FALSE)
        [] operation = "median" -> Scalar(Median2(values), 2, FALSE)
        [] operation = "stdev" -> stdev(values)
        [] operation = "sum" -> Scalar(SumSeq(values), 1, FALSE)
        [] operation = "count" -> Scalar(n, 1, FALSE)
        [] operation = "range" -> Scalar(MaxSeq(values) - MinSeq(values), 1, FALSE)
        [] operation = "mad" ->
             LET med2 == Median2(values)
             IN  Scalar(Median2([i \in 1..n |-> Abs(2 * values[i] - med2)]), 4, FALSE)
        [] OTHER -> Raise("ValueError")

\* compute_statistic with the operation checked before the emptiness test.
compute_statistic_op_first(data, operation) ==
  IF operation \notin ValidStats THEN Raise("ValueError")
  ELSE IF data = <<>> THEN ListResult(<<>>)
  ELSE reduce_nonempty(data, operation)

compute_statistic(data, operation) ==
  IF data = <<>> THEN ListResult(<<>>)
  ELSE reduce_nonempty(data, operation)

(***************************************************************************)
(* get_function_name: the retention router.  current_time is the float    *)
(* datetime.now().timestamp(), counted here in hundredths of a second;     *)
(* history_days and trends_days are what convert_day returned, counted in  *)
(* hundredths of a day, so days * seconds_in_day seconds is                *)
(* hundredths-of-a-day * seconds_in_day hundredths of a second.  int()     *)
(* truncates the difference towards zero to whole seconds.                 *)
(***************************************************************************)
TruncDiv(a, b) == IF a >= 0 THEN a \div b ELSE -((-a) \div b)

threshold(current_time, days) ==
  TruncDiv(current_time - days * seconds_in_day, 100)

\* The router with the history test ahead of the too-old test.
get_function_name_history_first(current_time, time_from, time_to, history_days, trends_days) ==
  LET history_threshold == threshold(current_time, history_days)
      trends_threshold == threshold(current_time, trends_days)
  IN  IF time_from >= history_threshold THEN "get_history"
      ELSE IF time_to < trends_threshold THEN "No data - too old"
      ELSE IF time_to <= history_threshold /\ time_from >= trends_threshold
        THEN "get_trends"
      ELSE IF time_from < history_threshold /\ time_to >= history_threshold
        THEN "get_trends"
      ELSE "Invalid range"

\* The router with a straddling window served from raw samples.
get_function_name_straddle_history(current_time, time_from, time_to, history_days, trends_days) ==
  LET history_threshold == threshold(current_time, history_days)
      trends_threshold == threshold(current_time, trends_days)
  IN  IF time_to < trends_threshold THEN "No data - too old"
      ELSE IF time_from >= history_threshold THEN "get_history"
      ELSE IF time_to <= history_threshold /\ time_from >= trends_threshold
        THEN "get_trends"
      ELSE IF time_from < history_threshold /\ time_to >= history_threshold
        THEN "get_history"
      ELSE "Invalid range"
\* The router with the third test reduced to its first half: every window
\* that ends by the history threshold is sent to trends.
get_function_name_ends_in_trends(current_time, time_from, time_to, history_days, trends_days) ==
  LET history_threshold == threshold(current_time, history_days)
      trends_threshold == threshold(current_time, trends_days)
  IN  IF time_to < trends_threshold THEN "No data - too old"
      ELSE IF time_from >= history_threshold THEN "get_history"
      ELSE IF time_to <= history_threshold THEN "get_trends"
      ELSE IF time_from < history_threshold /\ time_to >= history_threshold
        THEN "get_trends"
      ELSE "Invalid range"

get_function_name(current_time, time_from, time_to, history_days, trends_days) ==
  LET history_threshold == threshold(current_time, history_days)
      trends_threshold == threshold(current_time, trends_days)
  IN  IF time_to < trends_threshold THEN "No data - too old"
      ELSE IF time_from >= history_threshold THEN "get_history"
      ELSE IF time_to <= history_threshold /\ time_from >= trends_threshold
        THEN "get_trends"
      ELSE IF time_from < history_threshold /\ time_to >= history_threshold
        THEN "get_trends"
      ELSE "Invalid range"

\* The clock readings, request times and retention lengths of the calls: the
\* clock reads NowSec or half a second later.
Nows == {100 * NowSec, 100 * NowSec + 50}

Times == {NowSec - (k * seconds_in_day) \div 2 : k \in 0..MaxSlots}

RetentionDays == {100 * d : d \in 0..MaxDays}

(***************************************************************************)
(* convert_day.  A duration string is modelled by the sequence of its      *)
(* <integer><letter> tokens; re.findall keeps the tokens whose lower-cased *)
(* letter is d, h or m.  The result is in hundredths of a day.             *)
(* total_days is a binary floating-point sum: float_error says on which    *)
(* side of the exact sum it lies, which decides the rounding only when the *)
(* exact sum is halfway between two hundredths.                            *)
(***************************************************************************)
lower(u) ==
  CASE u = "D" -> "d" [] u = "H" -> "h" [] u = "M" -> "m" [] u = "S" -> "s"
    [] u = "W" -> "w" [] OTHER -> u

\* The pattern matched without lower-casing the string first.
RECURSIVE findall_case_sensitive(_)
findall_case_sensitive(duration) ==
  IF duration = <<>> THEN <<>>
  ELSE LET t == Head(duration)
       IN  IF t.u \in {"d", "h", "m"}
           THEN <<t>> \o findall_case_sensitive(Tail(duration))
           ELSE findall_case_sensitive(Tail(duration))

RECURSIVE findall(_)
findall(duration) ==
  IF duration = <<>> THEN <<>>
  ELSE LET t == Head(duration)
       IN  IF lower(t.u) \in {"d", "h", "m"}
           THEN <<[n |-> t.n, u |-> lower(t.u)]>> \o findall(Tail(duration))
           ELSE findall(Tail(duration))

\* The minutes one matched token adds.
minutes_of(t) ==
  CASE t.u = "d" -> 1440 * t.n
    [] t.u = "h" -> 60 * t.n
    [] t.u = "m" -> t.n

RECURSIVE total_minutes(_)
total_minutes(matches) ==
  IF matches = <<>> THEN 0
  ELSE minutes_of(Head(matches)) + total_minutes(Tail(matches))

\* n minutes as a fraction of a day is a binary fraction n / (32 * 45): a
\* double holds it exactly iff 45 divides n.
Dyadic(minutes) == minutes % 45 = 0

Halfway(minutes) == (100 * minutes) % 1440 = 720

\* The sides of the exact sum on which total_days can lie, as far as
\* round() can tell them apart.  Away from a half the side is immaterial.
\* At a half: every term exact makes the sum exact; a sum that no double
\* holds is off to one side; otherwise the rounding errors of the terms may
\* cancel or not.
FloatErrors(duration) ==
  LET matches == findall(duration)
      minutes == total_minutes(matches)
  IN  IF ~Halfway(minutes) THEN {"exact"}
      ELSE IF \A i \in 1..Len(matches) : Dyadic(minutes_of(matches[i]))
        THEN {"exact"}
      ELSE IF ~Dyadic(minutes) THEN {"below", "above"}
      ELSE {"below", "exact", "above"}

\* round(a / b, 2) in hundredths, a >= 0 and b > 0 integers, for a double
\* within rounding error of a / b: a double exactly halfway goes to the even
\* hundredth.
RoundHundredths(a, b, float_error) ==
  LET q == (100 * a) \div b
      r == (100 * a) % b
  IN  IF 2 * r < b THEN q
      ELSE IF 2 * r > b THEN q + 1
      ELSE IF float_error = "below" THEN q
      ELSE IF float_error = "above" THEN q + 1
      ELSE IF q % 2 = 0 THEN q ELSE q + 1

convert_day(duration, float_error) ==
  RoundHundredths(total_minutes(findall(duration)), 1440, float_error)

(***************************************************************************)
(* The database, as the methods see it: each lookup or query the call      *)
(* makes gets one reply.                                                   *)
(***************************************************************************)
NotAsked == [kind |-> "not asked"]
Fault == [kind |-> "fault"]
NotFound == [kind |-> "notfound"]
NoConnection == [kind |-> "no connection"]

PyNone == [kind |-> "None"]
ErrorObject(exc) == [kind |-> "exception object", exc |-> exc]
Text(t) == [kind |-> "str", text |-> t]

\* get_monitoring_Status: 0 for an enabled host, 1 for a disabled one, a
\* RuntimeError object (returned, not raised) when the query fails or the
\* connection is down, and a TypeError out of result['status'] when the
\* host has no row.
get_monitoring_Status(reply) ==
  CASE reply.kind = "fault" -> ErrorObject("RuntimeError")
    [] reply.kind = "notfound" -> Raise("TypeError")
    [] OTHER -> IF reply.status # 1 THEN [kind |-> "int", value |-> 0]
                ELSE [kind |-> "int", value |-> 1]

table_mapping(value_type) ==
  CASE value_type = 0 -> [history |-> "history", trends |-> "trends"]
    [] value_type = 1 -> [history |-> "history_str", trends |-> None]
    [] value_type = 2 -> [history |-> "history_log", trends |-> None]
    [] value_type = 3 -> [history |-> "history_uint", trends |-> "trends_uint"]
    [] value_type = 4 -> [history |-> "history_text", trends |-> None]

\* get_item_detail with a hostname: None when no row matches, a RuntimeError
\* raised when the connection is down or the query fails, else the first row
\* with its table names.
get_item_detail(reply) ==
  CASE reply.kind = "fault" -> Raise("RuntimeError")
    [] reply.kind = "notfound" -> PyNone
    [] OTHER ->
         [kind |-> "item",
          hostname |-> reply.host,
          status |-> reply.status,
          value_type |-> reply.value_type,
          history |-> reply.history,
          trends |-> reply.trends,
          units |-> reply.units,
          history_table_name |-> table_mapping(reply.value_type).history,
          trends_table_name |-> table_mapping(reply.value_type).trends]

HistoryTables == {"history", "history_str", "history_log", "history_uint",
                  "history_text"}

TrendTables == {"trends", "trends_uint"}

\* What follows cursor.fetchall() in get_history_data and get_trend_data.
after_fetch(reply, statistical_measure) ==
  IF reply.kind = "fault" THEN ErrorObject("RuntimeError")
  ELSE IF statistical_measure # None
    THEN IF statistical_measure \notin ValidStats
         THEN ErrorObject("RuntimeError")
         ELSE compute_statistic(reply.rows, statistical_measure)
    ELSE ListResult(reply.rows)

\* What a fetch call hands back: the value returned and the queries passed
\* to cursor.execute, each named by its function and the table it reads.
Fetched(ret, query) == [ret |-> ret, query |-> query]

Executed(fn, table) == {[fn |-> fn, table |-> table]}

\* get_history_data without the test against valid_tables.
get_history_data_unchecked(reply, history_table_name, statistical_measure) ==
  IF reply = NoConnection
  THEN Fetched(Text("No active database connection"), {})
  ELSE Fetched(after_fetch(reply, statistical_measure),
               Executed("get_history_data", history_table_name))

get_history_data(reply, history_table_name, statistical_measure) ==
  IF reply = NoConnection
  THEN Fetched(Text("No active database connection"), {})
  ELSE IF history_table_name \notin HistoryTables
  THEN Fetched(Text("Invalid history table name"), {})
  ELSE Fetched(after_fetch(reply, statistical_measure),
               Executed("get_history_data", history_table_name))

get_trend_data(reply, trend_table_name, statistical_measure) ==
  IF reply = NoConnection
  THEN Fetched(Text("No active database connection"), {})
  ELSE IF trend_table_name \notin TrendTables
  THEN Fetched(Text("Invalid history table name"), {})
  ELSE Fetched(after_fetch(reply, statistical_measure),
               Executed("get_trend_data", trend_table_name))

_error_response(message, hostname, metric_name, unit, statistical_measure) ==
  [kind |-> "response", status |-> "error", message |-> message,
   hostname |-> hostname, metric_name |-> metric_name, unit |-> unit,
   data |-> ListResult(<<>>), statistical_measure |-> statistical_measure]

_success_response(data, hostname, metric_name, unit, statistical_measure) ==
  [kind |-> "response", status |-> "success", message |-> None,
   hostname |-> hostname, metric_name |-> metric_name, unit |-> unit,
   data |-> data, statistical_measure |-> statistical_measure]

\* What a call of get_metric_data comes to: the value returned or raised,
\* the number of lookups and fetches made, and the queries the fetch executed.
OutcomeOfFetch(ret, status_calls, item_calls, fetch_calls, query) ==
  [ret |-> ret,
   calls |-> [status |-> status_calls, item |-> item_calls, fetch |-> fetch_calls,
              query |-> query]]

Outcome(ret, status_calls, item_calls, fetch_calls) ==
  OutcomeOfFetch(ret, status_calls, item_calls, fetch_calls, {})

\* fetch_func[function_name](): a KeyError for a decision that names no
\* fetch function.
dispatch(function_name, item_details, statistical_measure, fetch_reply) ==
  CASE function_name = "get_history" ->
         get_history_data(fetch_reply, item_details.history_table_name,
                          statistical_measure)
    [] function_name = "get_trends" ->
         get_trend_data(fetch_reply, item_details.trends_table_name,
                        statistical_measure)
    [] OTHER -> Fetched(Raise("KeyError"), {})

\* The end of the try block: an exception out of the fetch goes to the
\* caller, anything returned is wrapped as a success.
wrap(fetched, req, item_details, statistical_measure, asked) ==
  IF fetched.ret.kind = "raise"
  THEN OutcomeOfFetch(fetched.ret, 1, 1, asked, fetched.query)
  ELSE OutcomeOfFetch(_success_response(fetched.ret, req.hostname,
                                        req.metric_name, item_details.units,
                                        statistical_measure),
                      1, 1, asked, fetched.query)

\* get_metric_data from the try block on: the routing decision is made.
fetch_and_wrap(req, item_details, function_name, statistical_measure, fetch_reply) ==
  IF statistical_measure # None /\ statistical_measure \notin ValidStats
  THEN Outcome(_error_response("Invalid statistical measure", req.hostname,
                               req.metric_name, item_details.units,
                               statistical_measure), 1, 1, 0)
  ELSE wrap(dispatch(function_name, item_details, statistical_measure, fetch_reply),
            req, item_details, statistical_measure,
            IF function_name \in {"get_history", "get_trends"} THEN 1 ELSE 0)

\* The status checks with the host-disabled test ahead of the item-not-found
\* test.
resolve_checked_window_host_first(req, now, status_reply, item_reply, fetch_reply) ==
  LET monitoring_status == get_monitoring_Status(status_reply)
      item_details == get_item_detail(item_reply)
  IN  IF monitoring_status.kind = "raise" THEN Outcome(monitoring_status, 1, 0, 0)
      ELSE IF item_details.kind = "raise" THEN Outcome(item_details, 1, 1, 0)
      ELSE IF monitoring_status = [kind |-> "int", value |-> 1]
        THEN Outcome(_error_response("Host is disabled", req.hostname,
                                     req.metric_name, "unknown", None), 1, 1, 0)
      ELSE IF item_details = PyNone
        THEN Outcome(_error_response("Item not found", req.hostname,
                                     req.metric_name, "unknown",
                                     req.statistical_measure), 1, 1, 0)
      ELSE IF item_details.status # 0
        THEN Outcome(_error_response("Item is disabled", req.hostname,
                                     req.metric_name, item_details.units, None),
                     1, 1, 0)
      ELSE IF item_details.history_table_name = None
        THEN Outcome(_error_response("No valid history table", req.hostname,
                                     req.metric_name, item_details.units,
                                     req.statistical_measure), 1, 1, 0)
      ELSE IF item_details.history_table_name
                \notin {"history_str", "history_log", "history_text"}
        THEN fetch_and_wrap(req, item_details,
                            get_function_name(now, req.time_from, req.time_to,
                                              convert_day(item_details.history, "exact"),
                                              convert_day(item_details.trends, "exact")),
                            req.statistical_measure, fetch_reply)
      ELSE fetch_and_wrap(req, item_details, "get_history",
                          IF req.statistical_measure = "last" THEN "last" ELSE None,
                          fetch_reply)

\* The status checks followed by the router for every value type, the
\* requested statistic kept as it is.
resolve_checked_window_always_routed(req, now, status_reply, item_reply, fetch_reply) ==
  LET monitoring_status == get_monitoring_Status(status_reply)
      item_details == get_item_detail(item_reply)
  IN  IF monitoring_status.kind = "raise" THEN Outcome(monitoring_status, 1, 0, 0)
      ELSE IF item_details.kind = "raise" THEN Outcome(item_details, 1, 1, 0)
      ELSE IF item_details = PyNone
        THEN Outcome(_error_response("Item not found", req.hostname,
                                     req.metric_name, "unknown",
                                     req.statistical_measure), 1, 1, 0)
      ELSE IF monitoring_status = [kind |-> "int", value |-> 1]
        THEN Outcome(_error_response("Host is disabled", req.hostname,
                                     req.metric_name, "unknown", None), 1, 1, 0)
      ELSE IF item_details.status # 0
        THEN Outcome(_error_response("Item is disabled", req.hostname,
                                     req.metric_name, item_details.units, None),
                     1, 1, 0)
      ELSE IF item_details.history_table_name = None
        THEN Outcome(_error_response("No valid history table", req.hostname,
                                     req.metric_name, item_details.units,
                                     req.statistical_measure), 1, 1, 0)
      ELSE fetch_and_wrap(req, item_details,
                          get_function_name(now, req.time_from, req.time_to,
                                            convert_day(item_details.history, "exact"),
                                            convert_day(item_details.trends, "exact")),
                          req.statistical_measure, fetch_reply)

\* get_metric_data after the time-range check: the two lookups, the status
\* checks and the routing.
resolve_checked_window(req, now, status_reply, item_reply, fetch_reply) ==
  LET monitoring_status == get_monitoring_Status(status_reply)
      item_details == get_item_detail(item_reply)
  IN  IF monitoring_status.kind = "raise" THEN Outcome(monitoring_status, 1, 0, 0)
      ELSE IF item_details.kind = "raise" THEN Outcome(item_details, 1, 1, 0)
      ELSE IF item_details = PyNone
        THEN Outcome(_error_response("Item not found", req.hostname,
                                     req.metric_name, "unknown",
                                     req.statistical_measure), 1, 1, 0)
      ELSE IF monitoring_status = [kind |-> "int", value |-> 1]
        THEN Outcome(_error_response("Host is disabled", req.hostname,
                                     req.metric_name, "unknown", None), 1, 1, 0)
      ELSE IF item_details.status # 0
        THEN Outcome(_error_response("Item is disabled", req.hostname,
                                     req.metric_name, item_details.units, None),
                     1, 1, 0)
      ELSE IF item_details.history_table_name = None
        THEN Outcome(_error_response("No valid history table", req.hostname,
                                     req.metric_name, item_details.units,
                                     req.statistical_measure), 1, 1, 0)
      ELSE IF item_details.history_table_name
                \notin {"history_str", "history_log", "history_text"}
        THEN fetch_and_wrap(req, item_details,
                            get_function_name(now, req.time_from, req.time_to,
                                              convert_day(item_details.history, "exact"),
                                              convert_day(item_details.trends, "exact")),
                            req.statistical_measure, fetch_reply)
      ELSE fetch_and_wrap(req, item_details, "get_history",
                          IF req.statistical_measure = "last" THEN "last" ELSE None,
                          fetch_reply)

\* get_metric_data with the host status looked up ahead of the range check.
get_metric_data_lookup_first(req, now, status_reply, item_reply, fetch_reply) ==
  LET monitoring_status == get_monitoring_Status(status_reply)
  IN  IF monitoring_status.kind = "raise" THEN Outcome(monitoring_status, 1, 0, 0)
      ELSE IF req.time_from > req.time_to
        THEN Outcome(_error_response("Invalid time range", req.hostname,
                                     req.metric_name, "unknown",
                                     req.statistical_measure), 1, 0, 0)
      ELSE resolve_checked_window(req, now, status_reply, item_reply, fetch_reply)

get_metric_data(req, now, status_reply, item_reply, fetch_reply) ==
  IF req.time_from > req.time_to
  THEN Outcome(_error_response("Invalid time range", req.hostname,
                               req.metric_name, "unknown",
                               req.statistical_measure), 0, 0, 0)
  ELSE resolve_checked_window(req, now, status_reply, item_reply, fetch_reply)

(***************************************************************************)
(* The requests get_metric_data is called with and the replies the         *)
(* database gives.                                                         *)
(***************************************************************************)
WindowTimes == {NowSec - (k * seconds_in_day) \div 2 : k \in {1, 3, 5}}

Requests ==
  [hostname : {"host1"}, metric_name : {"CPU utilization"},
   time_from : WindowTimes, time_to : WindowTimes,
   statistical_measure : {None} \cup Operations]

\* Whole days: every term of total_days is exact.
ItemDurations == {<<[n |-> d, u |-> "d"]>> : d \in 1..MaxItemDays}

StatusReplies ==
  {Fault, NotFound} \cup {[kind |-> "row", status |-> st] : st \in {0, 1}}

ItemRow(host) ==
  [kind : {"row"}, host : {host}, status : {0, 1}, value_type : 0..4,
   history : ItemDurations, trends : ItemDurations, units : {"%"}]

ItemReplies(host) == {Fault, NotFound} \cup ItemRow(host)

FetchedSample == [clock : {1, 2}, value : {4, 12}]

\* ORDER BY clock DESC
ClockDescending(rows) ==
  \A i, j \in 1..Len(rows) : i < j => rows[i].clock >= rows[j].clock

FetchReplies ==
  {Fault} \cup {[kind |-> "rows", rows |-> r] :
                  r \in {q \in SeqsUpTo(FetchedSample, MaxRows) : ClockDescending(q)}}

\* A reply exists only for a lookup the call makes; whether it makes it does
\* not depend on the reply itself.
Given(reply) == IF reply = NotAsked THEN Fault ELSE reply

LookupsMade(req, now, status_reply, item_reply) ==
  get_metric_data(req, now, Given(status_reply), Given(item_reply), Fault).calls

StatusReplyFor(req, now) ==
  IF LookupsMade(req, now, Fault, Fault).status > 0 THEN StatusReplies ELSE {NotAsked}

ItemReplyFor(req, now, status_reply) ==
  IF LookupsMade(req, now, status_reply, Fault).item > 0
  THEN ItemReplies(req.hostname) ELSE {NotAsked}

FetchReplyFor(req, now, status_reply, item_reply) ==
  IF LookupsMade(req, now, status_reply, item_reply).fetch > 0
  THEN FetchReplies ELSE {NotAsked}

(***************************************************************************)
(* get_host_by_metric.  A row of the frame is a record whose clock and     *)
(* value are <<>> for None/NaN and a one-element sequence otherwise; a     *)
(* value is the number num/den (its square root when root is set).         *)
(***************************************************************************)
Number(num, den, root) == [num |-> num, den |-> den, root |-> root]

Row(hostname, unit, clock, value) ==
  [hostname |-> hostname, unit |-> unit, clock |-> clock, value |-> value]

\* The rows one host's response adds: one per sample when data is a
\* non-empty list of dicts, else one row with no clock whose value is the
\* data if it is truthy and None if not.
rows_of(metric_data) ==
  LET data_points == metric_data.data
  IN  IF data_points.kind = "list" /\ data_points.items # <<>>
      THEN [i \in 1..Len(data_points.items) |->
              Row(metric_data.hostname, metric_data.unit,
                  <<data_points.items[i].clock>>,
                  <<Number(data_points.items[i].value, 1, FALSE)>>)]
      ELSE <<Row(metric_data.hostname, metric_data.unit, <<>>,
                 IF data_points.kind = "scalar" /\ data_points.num # 0
                 THEN <<Number(data_points.num, data_points.den, data_points.root)>>
                 ELSE <<>>)>>

\* The loop over hostnames: the rows gathered so far, or the exception the
\* first raising get_metric_data call ends the loop with.  replies[i] holds
\* what the database answers during the call for hostnames[i].
RECURSIVE gather(_, _, _, _)
gather(hostnames, req, now, replies) ==
  IF hostnames = <<>> THEN ListResult(<<>>)
  ELSE
    LET metric_data == get_metric_data([req EXCEPT !.hostname = Head(hostnames)],
                                       now,
                                       Given(Head(replies).status_reply),
                                       Given(Head(replies).item_reply),
                                       Given(Head(replies).fetch_reply)).ret
    IN  IF metric_data.kind = "raise" THEN metric_data
        ELSE LET rest == gather(Tail(hostnames), req, now, Tail(replies))
             IN  IF rest.kind = "raise" THEN rest
                 ELSE ListResult(rows_of(metric_data) \o rest.items)

\* rows[:limit]
truncate(rows, limit) ==
  IF limit = <<>> \/ limit[1] >= Len(rows) THEN rows
  ELSE SubSeq(rows, 1, limit[1])

\* a < b for two numbers of the frame (all are >= 0, so the roots compare as
\* their squares do).
Less(a, b) == a.num * b.den < b.num * a.den

\* value descending, NaN last.
SortedDescending(rows) ==
  \A i, j \in 1..Len(rows) :
    i < j => /\ rows[i].value = <<>> => rows[j].value = <<>>
             /\ (rows[i].value # <<>> /\ rows[j].value # <<>>) =>
                  ~Less(rows[i].value[1], rows[j].value[1])

Orderings(n) ==
  {f \in [1..n -> 1..n] : \A i, j \in 1..n : f[i] = f[j] => i = j}

\* df.sort_values(by='value', ascending=False, na_position='last'): the
\* orders it may leave the rows in (rows of equal value in any order).
sort_values(rows) ==
  {[i \in 1..Len(rows) |-> rows[f[i]]] : f \in
     {g \in Orderings(Len(rows)) :
        SortedDescending([i \in 1..Len(rows) |-> rows[g[i]]])}}

\* get_host_by_metric up to the sort: the frame's rows, an empty frame when
\* no item matches, or the exception raised.  hostnames is list({...}), the
\* distinct hosts in the order the set yields them.
frame_rows(req, limit, now, list_reply, hostnames, replies) ==
  IF list_reply.kind = "fault" THEN Raise("RuntimeError")
  ELSE IF list_reply.kind = "notfound" THEN [kind |-> "dataframe", items |-> <<>>]
  ELSE
    LET rows == gather(hostnames, req, now, replies)
    IN  IF rows.kind = "raise" THEN rows
        ELSE ListResult(truncate(rows.items, limit))

(***************************************************************************)
(* The calls of get_host_by_metric: the hosts are host ids 1..n, every     *)
(* host answers its own get_metric_data call.                              *)
(***************************************************************************)
AggregatorStats == {None, "last", "max", "mean", "stdev", "mode"}

AggregatorRequests ==
  [hostname : {None}, metric_name : {"CPU utilization"},
   time_from : WindowTimes, time_to : WindowTimes,
   statistical_measure : AggregatorStats]

Limits == {<<>>} \cup {<<k>> : k \in 0..MaxLimit}

HostStatusReplies == {[kind |-> "row", status |-> st] : st \in {0, 1}}

HostItemReplies(host) ==
  {[kind |-> "row", host |-> host, status |-> st, value_type |-> 0,
    history |-> <<[n |-> 1, u |-> "d"]>>,
    trends |-> <<[n |-> MaxItemDays, u |-> "d"]>>, units |-> "%"] : st \in {0, 1}}

HostFetchReplies == FetchReplies \ {Fault}

Unasked ==
  [status_reply |-> NotAsked, item_reply |-> NotAsked, fetch_reply |-> NotAsked]

\* The replies one host's get_metric_data call is given.
HostReplies(req, now, host) ==
  LET r == [req EXCEPT !.hostname = host]
  IN  UNION {UNION {{[status_reply |-> sr, item_reply |-> ir, fetch_reply |-> fr] :
                       fr \in (IF FetchReplyFor(r, now, sr, ir) = {NotAsked}
                               THEN {NotAsked} ELSE HostFetchReplies)} :
                    ir \in (IF ItemReplyFor(r, now, sr) = {NotAsked}
                            THEN {NotAsked} ELSE HostItemReplies(host))} :
             sr \in (IF StatusReplyFor(r, now) = {NotAsked}
                     THEN {NotAsked} ELSE HostStatusReplies)}

Raises(req, now, host, t) ==
  get_metric_data([req EXCEPT !.hostname = host], now, Given(t.status_reply),
                  Given(t.item_reply), Given(t.fetch_reply)).ret.kind = "raise"

\* Every host the loop reaches answers its call; a host after a raising
\* call is never asked.
RECURSIVE AnswersOf(_, _, _)
AnswersOf(req, now, hostnames) ==
  IF hostnames = <<>> THEN {<<>>}
  ELSE UNION {IF Raises(req, now, Head(hostnames), t)
              THEN {<<t>> \o [i \in 1..(Len(hostnames) - 1) |-> Unasked]}
              ELSE {<<t>> \o rest : rest \in AnswersOf(req, now, Tail(hostnames))} :
              t \in HostReplies(req, now, Head(hostnames))}

NoCalls == [status |-> 0, item |-> 0, fetch |-> 0, query |-> {}]

Init ==
  /\ pc = "idle"
  /\ op = "none"
  /\ args = <<>>
  /\ result = <<>>
  /\ calls = NoCalls

CallComputeStatistic ==
  /\ pc = "idle"
  /\ \E data \in SeqsUpTo(Sample, MaxLen), operation \in Operations :
       /\ args' = [data |-> data, operation |-> operation]
       /\ result' = compute_statistic(data, operation)
  /\ op' = "compute_statistic"
  /\ pc' = "returned"
  /\ calls' = NoCalls

NextStats == CallComputeStatistic

CallGetFunctionName ==
  /\ pc = "idle"
  /\ \E now \in Nows, time_from \in Times, time_to \in Times,
        history_days \in RetentionDays, trends_days \in RetentionDays :
       /\ args' = [now |-> now, time_from |-> time_from, time_to |-> time_to,
                   history_days |-> history_days, trends_days |-> trends_days]
       /\ result' = get_function_name(now, time_from, time_to,
                                      history_days, trends_days)
  /\ op' = "get_function_name"
  /\ pc' = "returned"
  /\ calls' = NoCalls

NextRouter == CallGetFunctionName

SpecRouter == Init /\ [][NextRouter]_vars

SpecStats == Init /\ [][NextStats]_vars

CallGetMetricData ==
  /\ pc = "idle"
  /\ \E req \in Requests, now \in Nows :
       \E status_reply \in StatusReplyFor(req, now) :
         \E item_reply \in ItemReplyFor(req, now, status_reply) :
           \E fetch_reply \in FetchReplyFor(req, now, status_reply, item_reply) :
             LET out == get_metric_data(req, now, Given(status_reply),
                                        Given(item_reply), Given(fetch_reply))
             IN  /\ args' = [req |-> req, now |-> now,
                             status_reply |-> status_reply,
                             item_reply |-> item_reply,
                             fetch_reply |-> fetch_reply]
                 /\ result' = out.ret
                 /\ calls' = out.calls
  /\ op' = "get_metric_data"
  /\ pc' = "returned"

NextResolver == CallGetMetricData

SpecResolver == Init /\ [][NextResolver]_vars

CallGetHostByMetric ==
  /\ pc = "idle"
  /\ \E req \in AggregatorRequests, limit \in Limits, n \in 0..MaxHosts,
        now \in {100 * NowSec + 50} :
       \E list_reply \in (IF n = 0 THEN {Fault, NotFound}
                          ELSE {[kind |-> "rows", hosts |-> 1..n]}) :
         \E hostnames \in Orderings(n) :
           \E replies \in AnswersOf(req, now, hostnames) :
             LET frame == frame_rows(req, limit, now, list_reply, hostnames, replies)
             IN  /\ args' = [req |-> req, limit |-> limit, now |-> now,
                             list_reply |-> list_reply, hostnames |-> hostnames,
                             replies |-> replies]
                 /\ IF frame.kind = "list"
                    THEN \E sorted \in sort_values(frame.items) :
                           result' = _success_response(ListResult(sorted), None,
                                                       req.metric_name, None, None)
                    ELSE result' = frame
  /\ op' = "get_host_by_metric"
  /\ pc' = "returned"
  /\ calls' = NoCalls

NextAggregator == CallGetHostByMetric

\* Direct calls of the two fetch functions, one after another: any table
\* name, the connection up or down, the query failing or returning rows.
TableNames == HistoryTables \cup TrendTables \cup {None, "items", "users"}

FetchStats == {None, "max", "all"}

QueryReplies ==
  {Fault} \cup {[kind |-> "rows", rows |-> r] :
                  r \in {q \in SeqsUpTo(FetchedSample, MaxFetchRows) :
                           ClockDescending(q)}}

\* The connection is down, or it is up and the query, when the call gets
\* as far as executing one, fails or returns rows.
RepliesTo(fetched_when_up) ==
  {NoConnection} \cup (IF fetched_when_up.query = {} THEN {NotAsked}
                       ELSE QueryReplies)

CallGetHistoryData ==
  /\ pc \in {"idle", "fetched"}
  /\ calls.fetch < MaxCalls
  /\ \E history_table_name \in TableNames, statistical_measure \in FetchStats :
       \E reply \in RepliesTo(get_history_data(Fault, history_table_name,
                                                statistical_measure)) :
         LET fetched == get_history_data(Given(reply), history_table_name,
                                         statistical_measure)
         IN  /\ args' = [table |-> history_table_name,
                         statistical_measure |-> statistical_measure,
                         reply |-> reply, before |-> calls.query]
             /\ result' = fetched.ret
             /\ calls' = [calls EXCEPT !.fetch = @ + 1,
                                       !.query = @ \cup fetched.query]
  /\ op' = "get_history_data"
  /\ pc' = "fetched"

CallGetTrendData ==
  /\ pc \in {"idle", "fetched"}
  /\ calls.fetch < MaxCalls
  /\ \E trend_table_name \in TableNames, statistical_measure \in FetchStats :
       \E reply \in RepliesTo(get_trend_data(Fault, trend_table_name,
                                              statistical_measure)) :
         LET fetched == get_trend_data(Given(reply), trend_table_name,
                                       statistical_measure)
         IN  /\ args' = [table |-> trend_table_name,
                         statistical_measure |-> statistical_measure,
                         reply |-> reply, before |-> calls.query]
             /\ result' = fetched.ret
             /\ calls' = [calls EXCEPT !.fetch = @ + 1,
                                       !.query = @ \cup fetched.query]
  /\ op' = "get_trend_data"
  /\ pc' = "fetched"

\* Duration strings: integers that do and do not land on half a hundredth
\* of a day, followed by a unit in either case, another letter or a
\* character that is no letter.
TokenInts == {0, 1, 3, 36}

TokenChars == {"d", "h", "m", "D", "H", "M", "s", "w", "."}

Durations == SeqsUpTo([n : TokenInts, u : TokenChars], MaxTokens)

Float(hundredths) == [kind |-> "float", hundredths |-> hundredths]

CallConvertDay ==
  /\ pc = "idle"
  /\ \E duration \in Durations :
       \E float_error \in FloatErrors(duration) :
         /\ args' = [duration |-> duration, float_error |-> float_error]
         /\ result' = Float(convert_day(duration, float_error))
  /\ op' = "convert_day"
  /\ pc' = "returned"
  /\ calls' = NoCalls

NextParser == CallConvertDay

SpecParser == Init /\ [][NextParser]_vars

NextFetch == CallGetHistoryData \/ CallGetTrendData

SpecFetch == Init /\ [][NextFetch]_vars

SpecAggregator == Init /\ [][NextAggregator]_vars

Next ==
  \/ CallComputeStatistic
  \/ CallGetFunctionName
  \/ CallGetMetricData
  \/ CallGetHostByMetric
  \/ CallGetHistoryData
  \/ CallGetTrendData
  \/ CallConvertDay

Spec == Init /\ [][Next]_vars

(***************************************************************************)
(* Claims about compute_statistic.                                         *)
(***************************************************************************)
StatsCall == pc = "returned" /\ op = "compute_statistic"

RawValues(data) == [i \in 1..Len(data) |-> data[i].value]

Ties(data, v) == Cardinality({i \in 1..Len(data) : data[i].value = v})

IsSubSeqOf(sub, data) ==
  \E f \in [1..Len(sub) -> 1..Len(data)] :
    /\ \A i \in 1..Len(sub) : sub[i] = data[f[i]]
    /\ \A i, j \in 1..Len(sub) : i < j => f[i] < f[j]

ExtremeOf(data, operation) ==
  IF operation = "min" THEN MinSeq(RawValues(data)) ELSE MaxSeq(RawValues(data))

\* C6: for every non-empty sample sequence, min and max return a non-empty
\* subset of the input in which every value is the extremal value, as many
\* samples as are tied at it.
C6_MinMaxReturnsAllTies ==
  (StatsCall /\ args.data # <<>> /\ args.operation \in {"min", "max"}) =>
    /\ result.kind = "list"
    /\ result.items # <<>>
    /\ IsSubSeqOf(result.items, args.data)
    /\ \A i \in 1..Len(result.items) :
         result.items[i].value = ExtremeOf(args.data, args.operation)
    /\ Len(result.items) = Ties(args.data, ExtremeOf(args.data, args.operation))

\* C7 as stated: on the empty sequence every operation of the closed set
\* gives an empty result and every other operation is reported unsupported.
C7_EmptyInputChecksOperation ==
  (StatsCall /\ args.data = <<>>) =>
    IF args.operation \in ValidStats
    THEN result = ListResult(<<>>)
    ELSE result = Raise("ValueError")

\* C7 amended: on the empty sequence every operation, supported or not, gives
\* the empty result; an unsupported operation is reported exactly when the
\* input is non-empty.
C7_EmptyInputIsEmptyResult ==
  StatsCall =>
    /\ args.data = <<>> => result = ListResult(<<>>)
    /\ result = Raise("ValueError") <=>
         (args.data # <<>> /\ args.operation \notin ValidStats)

C7_Witness ==
  /\ StatsCall
  /\ args.data = <<>>
  /\ args.operation \notin ValidStats
  /\ result = ListResult(<<>>)

\* C8 as stated: stdev ends in the insufficient-samples error if and only if
\* there are fewer than two samples.
C8_StdevErrorsBelowTwo ==
  (StatsCall /\ args.operation = "stdev") =>
    /\ result = Raise("StatisticsError") <=> Len(args.data) < 2
    /\ Len(args.data) >= 2 => result.kind = "scalar"

\* C8 amended: stdev ends in the insufficient-samples error if and only if
\* there is exactly one sample; no sample gives the empty result and two or
\* more give a scalar.
C8_StdevErrorsOnOneSample ==
  (StatsCall /\ args.operation = "stdev") =>
    /\ result = Raise("StatisticsError") <=> Len(args.data) = 1
    /\ Len(args.data) = 0 => result = ListResult(<<>>)
    /\ Len(args.data) >= 2 => result.kind = "scalar"

C8_Witness ==
  /\ StatsCall
  /\ args.operation = "stdev"
  /\ Len(args.data) = 1
  /\ result = Raise("StatisticsError")

(***************************************************************************)
(* Claims about get_function_name.                                         *)
(***************************************************************************)
RouterCall == pc = "returned" /\ op = "get_function_name"

\* The cutoffs of a call, in whole seconds as the router computes them.
history_cutoff == threshold(args.now, args.history_days)

trends_cutoff == threshold(args.now, args.trends_days)

\* C9: with trends retention at least history retention and a well-formed
\* window, a window at or after the history cutoff is served from history, a
\* window before the trends cutoff is too old, a window between the two
\* cutoffs is served from trends, and so is a window straddling the history
\* cutoff.
C9_ClassifyWellOrderedRetention ==
  (/\ RouterCall
   /\ args.trends_days >= args.history_days
   /\ args.time_from <= args.time_to) =>
    /\ args.time_from >= history_cutoff => result = "get_history"
    /\ args.time_to < trends_cutoff => result = "No data - too old"
    /\ (/\ args.time_from >= trends_cutoff
        /\ args.time_from < history_cutoff
        /\ args.time_to <= history_cutoff) => result = "get_trends"
    /\ (/\ args.time_from < history_cutoff
        /\ history_cutoff <= args.time_to) => result = "get_trends"

\* A straddling window whose start predates the trends cutoff as well.
C9_Witness ==
  /\ RouterCall
  /\ args.trends_days > args.history_days
  /\ args.time_from < trends_cutoff
  /\ history_cutoff < args.time_to
  /\ result = "get_trends"

\* C10: whatever the retention settings and the window, a window that ends
\* before the trends cutoff is too old.
C10_TooOldTakesPrecedence ==
  (RouterCall /\ args.time_to < trends_cutoff) => result = "No data - too old"

\* Trends retention shorter than history retention, the window inside raw
\* retention and yet before the trends cutoff.
C10_Witness ==
  /\ RouterCall
  /\ args.trends_days < args.history_days
  /\ args.time_from <= args.time_to
  /\ args.time_from >= history_cutoff
  /\ args.time_to < trends_cutoff
  /\ result = "No data - too old"

(***************************************************************************)
(* Claims about get_metric_data.                                           *)
(***************************************************************************)
ResolverCall == pc = "returned" /\ op = "get_metric_data"

IsResponse == result.kind = "response"

\* The routing decision of a request whose item lookup returned a row.
DecisionOf(a) ==
  get_function_name(a.now, a.req.time_from, a.req.time_to,
                    convert_day(a.item_reply.history, "exact"),
                    convert_day(a.item_reply.trends, "exact"))

EnabledNumericItem(a) ==
  /\ a.status_reply.kind = "row"
  /\ a.status_reply.status = 0
  /\ a.item_reply.kind = "row"
  /\ a.item_reply.status = 0
  /\ a.item_reply.value_type \in {0, 3}

\* C1: a request for an enabled numeric item on an enabled host, with a
\* well-formed window and no statistic or a valid one, whose routing
\* decision is too-old or invalid-range, gets a success response with empty
\* data: no failure, no exception.
C1_NoDataDecisionIsEmptySuccess ==
  (/\ ResolverCall
   /\ args.req.time_from <= args.req.time_to
   /\ args.req.statistical_measure \in {None} \cup ValidStats
   /\ EnabledNumericItem(args)
   /\ DecisionOf(args) \in {"No data - too old", "Invalid range"}) =>
    /\ IsResponse
    /\ result.status = "success"
    /\ result.data = ListResult(<<>>)

AnyFault(a) ==
  \/ a.status_reply = Fault
  \/ a.item_reply = Fault
  \/ a.fetch_reply = Fault

\* C2: whatever the three collaborators answer, the caller gets a response,
\* never an exception, and when one of them reported a fault the response is
\* the query-failed failure.
C2_FaultsBecomeFailures ==
  ResolverCall =>
    /\ IsResponse
    /\ AnyFault(args) =>
         /\ result.status = "error"
         /\ result.message = "Query failed"

\* C3: a request with time_from > time_to gets the invalid-time-range
\* failure and no collaborator is called: no host-status lookup, no item
\* lookup, no fetch.
C3_InvalidWindowMakesNoCalls ==
  (ResolverCall /\ args.req.time_from > args.req.time_to) =>
    /\ IsResponse
    /\ result.status = "error"
    /\ result.message = "Invalid time range"
    /\ calls = NoCalls
    /\ args.status_reply = NotAsked
    /\ args.item_reply = NotAsked
    /\ args.fetch_reply = NotAsked

C3_Witness ==
  /\ ResolverCall
  /\ args.req.time_from > args.req.time_to
  /\ result.kind = "response"
  /\ result.message = "Invalid time range"
  /\ calls = NoCalls

(***************************************************************************)
(* Claims about get_host_by_metric.                                        *)
(***************************************************************************)
AggregatorCall == pc = "returned" /\ op = "get_host_by_metric"

\* Every row the hosts' responses flatten to, before any truncation.
FlattenedRows(a) == gather(a.hostnames, a.req, a.now, a.replies).items

\* What get_metric_data answered for one host of the call.
ResponseOf(a, host) ==
  LET i == CHOOSE k \in 1..Len(a.hostnames) : a.hostnames[k] = host
  IN  get_metric_data([a.req EXCEPT !.hostname = host], a.now,
                      Given(a.replies[i].status_reply),
                      Given(a.replies[i].item_reply),
                      Given(a.replies[i].fetch_reply)).ret

\* Row r sorts strictly ahead of row o: value descending, nulls last.
SortsAhead(r, o) ==
  /\ r.value # <<>>
  /\ o.value = <<>> \/ Less(o.value[1], r.value[1])

\* C4: the rows returned are the first `limit` rows of the fully sorted
\* flattened rows: sorted by value descending with nulls last, as many as the
\* limit allows, and no row left out sorts ahead of a row returned.
C4_LimitAppliedAfterSort ==
  (AggregatorCall /\ result.kind = "response") =>
    LET flat == FlattenedRows(args)
        out == result.data.items
    IN  /\ SortedDescending(out)
        /\ Len(out) = IF args.limit = <<>> \/ args.limit[1] >= Len(flat)
                      THEN Len(flat) ELSE args.limit[1]
        /\ \E f \in [1..Len(out) -> 1..Len(flat)] :
             /\ \A i, j \in 1..Len(out) : f[i] = f[j] => i = j
             /\ \A i \in 1..Len(out) : out[i] = flat[f[i]]
             /\ \A k \in 1..Len(flat) :
                  (\A i \in 1..Len(out) : f[i] # k) =>
                    \A i \in 1..Len(out) : ~SortsAhead(flat[k], out[i])

\* C5: every row returned carries the hostname of a host whose
\* get_metric_data call returned a success; a host whose call returned a
\* failure contributes no row.
C5_FailedHostsContributeNoRow ==
  (AggregatorCall /\ result.kind = "response") =>
    \A i \in 1..Len(result.data.items) :
      ResponseOf(args, result.data.items[i].hostname).status = "success"

\* C11: with a well-formed window and an existing host, the first failing
\* check is reported in the order item-not-found, host-disabled,
\* item-disabled, no-raw-table, and none of these cases fetches: an absent
\* item is item-not-found even on a disabled host, a disabled host is
\* host-disabled even when its item exists and is enabled.
C11_ChecksInFixedOrder ==
  (/\ ResolverCall
   /\ args.req.time_from <= args.req.time_to
   /\ args.status_reply.kind = "row") =>
    /\ args.item_reply = NotFound =>
         /\ IsResponse /\ result.status = "error"
         /\ result.message = "Item not found"
         /\ calls.fetch = 0
    /\ (args.item_reply.kind = "row" /\ args.status_reply.status = 1) =>
         /\ IsResponse /\ result.status = "error"
         /\ result.message = "Host is disabled"
         /\ calls.fetch = 0
    /\ (/\ args.item_reply.kind = "row"
        /\ args.status_reply.status # 1
        /\ args.item_reply.status # 0) =>
         /\ IsResponse /\ result.status = "error"
         /\ result.message = "Item is disabled"
         /\ calls.fetch = 0
    /\ (/\ args.item_reply.kind = "row"
        /\ args.status_reply.status # 1
        /\ args.item_reply.status = 0
        /\ table_mapping(args.item_reply.value_type).history = None) =>
         /\ IsResponse /\ result.status = "error"
         /\ result.message = "No valid history table"
         /\ calls.fetch = 0

\* A disabled host whose item is absent.
C11_Witness ==
  /\ ResolverCall
  /\ args.req.time_from <= args.req.time_to
  /\ args.status_reply.kind = "row"
  /\ args.status_reply.status = 1
  /\ args.item_reply = NotFound
  /\ result.kind = "response"
  /\ result.message = "Item not found"
  /\ calls.fetch = 0

FetchCall == op \in {"get_history_data", "get_trend_data"}

AllowList(fn) ==
  IF fn = "get_history_data"
  THEN {"history", "history_str", "history_log", "history_uint", "history_text"}
  ELSE {"trends", "trends_uint"}

\* C13: over every sequence of get_history_data and get_trend_data calls, each
\* query executed reads a table of its function's allow-list, and a call
\* given any other table name (none included) is rejected with no query
\* executed.
C13_QueriesOnlyOnAllowedTables ==
  /\ \A q \in calls.query : q.table \in AllowList(q.fn)
  /\ (FetchCall /\ args.table \notin AllowList(op)) =>
       /\ calls.query = args.before
       /\ result.kind = "str"

\* get_history_data is handed a trend table after an earlier call executed
\* a query, and rejects it.
C13_Witness ==
  /\ op = "get_history_data"
  /\ args.table = "trends"
  /\ args.reply = NotAsked
  /\ args.before # {}
  /\ calls.query = args.before
  /\ result = Text("Invalid history table name")

ParserCall == op = "convert_day"

\* The integers of the tokens whose character is one of units, summed.
RECURSIVE SumOfTokens(_, _)
SumOfTokens(duration, units) ==
  IF duration = <<>> THEN 0
  ELSE (IF Head(duration).u \in units THEN Head(duration).n ELSE 0)
       + SumOfTokens(Tail(duration), units)

\* C15: convert_day returns (1440*D + 60*H + M) / 1440 rounded to two
\* decimals, D, H and M the sums of the d, h and m tokens in either case: the
\* result is a hundredth nearest to that quotient.  Tokens with another
\* character add nothing and raise nothing, and a string with no d, h or m
\* token gives 0.0.
C15_NearestHundredthOfDays ==
  ParserCall =>
    LET D == SumOfTokens(args.duration, {"d", "D"})
        H == SumOfTokens(args.duration, {"h", "H"})
        M == SumOfTokens(args.duration, {"m", "M"})
    IN  /\ result.kind = "float"
        /\ Abs(1440 * result.hundredths - 100 * (1440 * D + 60 * H + M)) <= 720
        /\ (\A i \in 1..Len(args.duration) :
              args.duration[i].u \notin {"d", "h", "m", "D", "H", "M"})
             => result.hundredths = 0

\* "36w3H": the weeks are dropped, the upper-case hours count.
C15_Witness ==
  /\ ParserCall
  /\ args.duration = <<[n |-> 36, u |-> "w"], [n |-> 3, u |-> "H"]>>
  /\ result = Float(12)

EnabledNonNumericItem(a) ==
  /\ a.status_reply.kind = "row"
  /\ a.status_reply.status = 0
  /\ a.item_reply.kind = "row"
  /\ a.item_reply.status = 0
  /\ a.item_reply.value_type \in {1, 2, 4}

RawTableOf(value_type) ==
  CASE value_type = 1 -> "history_str"
    [] value_type = 2 -> "history_log"
    [] value_type = 4 -> "history_text"

\* C12: for an enabled string, log or text item on an enabled host and a
\* well-formed window, the one fetch is get_history_data on the item's raw
\* table, whatever the window and the retention settings; a statistic other
\* than "last", inside or outside the closed set, is dropped: the response
\* is a success with no statistic name that carries the fetched rows as
\* they came, never an invalid-statistic failure.
C12_NonNumericReadsRawAndDropsStatistic ==
  (/\ ResolverCall
   /\ args.req.time_from <= args.req.time_to
   /\ EnabledNonNumericItem(args)) =>
    /\ calls.fetch = 1
    /\ calls.query = {[fn |-> "get_history_data",
                       table |-> RawTableOf(args.item_reply.value_type)]}
    /\ args.req.statistical_measure # "last" =>
         /\ IsResponse
         /\ result.status = "success"
         /\ result.message # "Invalid statistical measure"
         /\ result.statistical_measure = None
         /\ args.fetch_reply.kind = "rows" =>
              result.data = ListResult(args.fetch_reply.rows)

\* A text item asked for a statistic outside the closed set over a window
\* the router would not send to the raw table: the rows come back whole.
C12_Witness ==
  /\ ResolverCall
  /\ args.req.time_from <= args.req.time_to
  /\ EnabledNonNumericItem(args)
  /\ args.item_reply.value_type = 4
  /\ args.req.statistical_measure = "mode"
  /\ DecisionOf(args) # "get_history"
  /\ args.fetch_reply.kind = "rows"
  /\ Len(args.fetch_reply.rows) = 2
  /\ result.kind = "response"
  /\ result.status = "success"
  /\ result.data = ListResult(args.fetch_reply.rows)
  /\ calls.query = {[fn |-> "get_history_data", table |-> "history_text"]}

\* C14: on a non-empty sequence "last" returns a single sample, not a
\* sequence: the member with the greatest timestamp, the first of them in
\* input order when several share it.
C14_LastReturnsSingleSample ==
  (StatsCall /\ args.data # <<>> /\ args.operation = "last") =>
    /\ result.kind # "list"
    /\ \E i \in 1..Len(args.data) :
         /\ result = args.data[i]
         /\ \A j \in 1..Len(args.data) : args.data[j].clock <= args.data[i].clock
         /\ \A j \in 1..(i - 1) : args.data[j].clock < args.data[i].clock

\* C16: get_function_name answers "Invalid range" exactly when
\* time_from < trends_cutoff <= time_to < history_cutoff, for every input,
\* ill-formed windows included; hence only for well-formed windows, and
\* never when trends_cutoff > history_cutoff.
C16_InvalidRangeExactly ==
  RouterCall =>
    /\ result = "Invalid range"
         <=> /\ args.time_from < trends_cutoff
             /\ trends_cutoff <= args.time_to
             /\ args.time_to < history_cutoff
    /\ result = "Invalid range" => args.time_from <= args.time_to
    /\ trends_cutoff > history_cutoff => result # "Invalid range"

\* A window that starts before the trends cutoff and ends between the two
\* cutoffs.
C16_Witness ==
  /\ RouterCall
  /\ result = "Invalid range"
  /\ args.time_from < trends_cutoff
  /\ trends_cutoff <= args.time_to
  /\ args.time_to < history_cutoff

====
